---- MODULE Spec2Model ----
(***************************************************************************)
(* A model of supermarket6.py, a Streamlit dashboard script.  Streamlit    *)
(* runs the whole script from top to bottom after every user interaction   *)
(* (a "pass"), so every action below is one interaction followed by one    *)
(* complete pass.  The pandas operations the script calls are operators    *)
(* over small explicit tables.                                             *)
(*                                                                         *)
(* A cell value is a pair <<kind, v>>: a string, a number, a timestamp or  *)
(* null (NaN / NaT / an empty cell).  Timestamps count half-days, so that  *)
(* a value can fall on a day after midnight; a calendar date d (what       *)
(* st.date_input returns) is the timestamp 2*d once pd.to_datetime has     *)
(* normalised it.                                                          *)
(***************************************************************************)
EXTENDS Integers, Sequences, FiniteSets, TLC

VARIABLES
    uploaded_file,   \* st.file_uploader's value: NoFile or a workbook
    session,         \* Streamlit's widget state: the widgets of the last pass
    filter_options,  \* the dict the sidebar builds, as a sequence of items
    error,           \* st.error("Cannot read the uploaded file ...") was shown
    exception,       \* the uncaught exception that ended the pass, or "none"
    cache,           \* st.cache_data's entry for the uploaded file
    rendered,        \* the stages of the main content that ran in the pass
    df,              \* load_data's result
    df_filtered,     \* df_filtered when the filter loop ends (the FilteredView)
    total_sales,     \* KPI 1
    total_qty,       \* KPI 2
    fig1,            \* Monthly Sales Trend
    fig2,            \* Products Sold (top products by quantity)
    fig3,            \* Sales by Product Line (top products by sales)
    fig4,            \* Payment Methods
    fig5,            \* Rating by City
    table,           \* df_filtered as st.dataframe shows it, after the charts
    csv              \* what st.download_button offers as filtered_data.csv

vars == <<uploaded_file, session, filter_options, error, exception, cache, rendered,
          df, df_filtered, total_sales, total_qty, fig1, fig2, fig3, fig4,
          fig5, table, csv>>

----------------------------------------------------------------------------
(* Cell values *)

Null == <<"null", 0>>
Str(i) == <<"str", i>>
Num(i) == <<"num", i>>
Ts(t) == <<"date", t>>

isnull(v) == v[1] = "null"

Min(a, b) == IF a < b THEN a ELSE b

Range(s) == {s[i] : i \in 1..Len(s)}

\* The members of a finite set of same-kind values, ascending.
RECURSIVE Sorted(_)
Sorted(S) ==
    IF S = {} THEN <<>>
    ELSE LET m == CHOOSE x \in S : \A y \in S : x[2] <= y[2]
         IN  <<m>> \o Sorted(S \ {m})

----------------------------------------------------------------------------
(* Column names.  TLC's strings are atomic, so each name is spelled out    *)
(* and str.lower() and the substring test `kw in name` work on spellings.  *)

Spell(name) ==
    CASE name = "Date" -> <<"D","a","t","e">>
      [] name = "Total" -> <<"T","o","t","a","l">>
      [] name = "Quantity" -> <<"Q","u","a","n","t","i","t","y">>
      [] name = "Product line" -> <<"P","r","o","d","u","c","t"," ","l","i","n","e">>
      [] name = "Payment" -> <<"P","a","y","m","e","n","t">>
      [] name = "City" -> <<"C","i","t","y">>
      [] name = "Rating" -> <<"R","a","t","i","n","g">>
      [] name = "Month" -> <<"M","o","n","t","h">>
      [] name = "Branch" -> <<"B","r","a","n","c","h">>
      [] name = "Gender" -> <<"G","e","n","d","e","r">>
      [] name = "Member" -> <<"M","e","m","b","e","r">>
      [] name = "Store" -> <<"S","t","o","r","e">>
      [] name = "Shift" -> <<"S","h","i","f","t">>
      [] name = "Region" -> <<"R","e","g","i","o","n">>
      [] name = "Zone" -> <<"Z","o","n","e">>
      [] name = "Clerk" -> <<"C","l","e","r","k">>
      [] name = "Shipped" -> <<"S","h","i","p","p","e","d">>
      [] name = "sales" -> <<"s","a","l","e","s">>
      [] name = "total" -> <<"t","o","t","a","l">>
      [] name = "qty" -> <<"q","t","y">>
      [] name = "quantity" -> <<"q","u","a","n","t","i","t","y">>
      [] name = "city" -> <<"c","i","t","y">>
      [] name = "rating" -> <<"r","a","t","i","n","g">>
      [] name = "product" -> <<"p","r","o","d","u","c","t">>
      [] name = "category" -> <<"c","a","t","e","g","o","r","y">>
      [] name = "payment" -> <<"p","a","y","m","e","n","t">>
      [] name = "date" -> <<"d","a","t","e">>

UpperCase == <<"A","B","C","D","E","F","G","H","I","J","K","L","M",
               "N","O","P","Q","R","S","T","U","V","W","X","Y","Z">>
LowerCase == <<"a","b","c","d","e","f","g","h","i","j","k","l","m",
               "n","o","p","q","r","s","t","u","v","w","x","y","z">>

\* str.lower()
lower(s) ==
    [i \in 1..Len(s) |->
        IF \E k \in 1..Len(UpperCase) : UpperCase[k] = s[i]
        THEN LowerCase[CHOOSE k \in 1..Len(UpperCase) : UpperCase[k] = s[i]]
        ELSE s[i]]

\* kw in s
contains(kw, s) ==
    \E i \in 0..(Len(s) - Len(kw)) : \A j \in 1..Len(kw) : s[i + j] = kw[j]

\* "kw" in c.lower()
Matches(kw, c) == contains(Spell(kw), lower(Spell(c)))

----------------------------------------------------------------------------
(* Tables (DataFrames): the column names in order, and the rows in order,  *)
(* each row a tuple aligned with the columns.                              *)

NoTable == [columns |-> <<>>, rows |-> <<>>]

ColIdx(t, c) == CHOOSE i \in 1..Len(t.columns) : t.columns[i] = c

HasCol(t, c) == \E i \in 1..Len(t.columns) : t.columns[i] = c

\* the i-th column's values in row order
ColAt(t, i) == [r \in 1..Len(t.rows) |-> t.rows[r][i]]

\* t[c], a Series: the column's values in row order
Col(t, c) == ColAt(t, ColIdx(t, c))

\* The dtype pandas infers for a column read from a sheet.  A column with
\* no rows is object; a column of empty cells only is float64 (NaN).
dtype(series) ==
    LET nn == {series[i] : i \in {j \in 1..Len(series) : ~isnull(series[j])}}
    IN  IF Len(series) = 0 THEN "object"
        ELSE IF \A v \in nn : v[1] = "num" THEN "numeric"
        ELSE IF \A v \in nn : v[1] = "date" THEN "datetime64"
        ELSE "object"

is_datetime64_any_dtype(series) == dtype(series) = "datetime64"
is_numeric_dtype(series) == dtype(series) = "numeric"

\* Series.dropna().unique(), as a set
unique(series) == {v \in Range(series) : ~isnull(v)}

\* Series.nunique()
nunique(series) == Cardinality(unique(series))

----------------------------------------------------------------------------
(* Program constants *)

\* pd.read_excel(uploaded_file, nrows=100)
nrows == 100
\* preview_df[col].nunique() < 20
nunique_limit == 20
\* categorical_cols[:5]
max_categorical == 5
\* .nlargest(10)
nlargest_n == 10

----------------------------------------------------------------------------
(* The uploaded workbook.  A workbook that pandas cannot parse has         *)
(* readable = FALSE; pd.read_excel raises on it, with or without nrows.    *)

NoFile == [present |-> FALSE, readable |-> FALSE, columns |-> <<>>, rows |-> <<>>]

\* pd.read_excel raises
read_excel_raises(file) == ~file.readable

\* read_excel keeping one row more than nrows
read_excel_one_more(file, n) ==
    [columns |-> file.columns,
     rows |-> SubSeq(file.rows, 1, Min(n + 1, Len(file.rows)))]

\* pd.read_excel(file, nrows=n) on a readable workbook
read_excel(file, n) ==
    [columns |-> file.columns,
     rows |-> SubSeq(file.rows, 1, Min(n, Len(file.rows)))]

\* st.cache_data's entry for the uploaded file: none yet, or the frame
NoCache == [hit |-> FALSE, frame |-> NoTable]
Cached(t) == [hit |-> TRUE, frame |-> t]

\* load_data(file): pd.read_excel(file) with no row limit, or on a cache hit
\* the frame st.cache_data holds
load_data(file, c) ==
    IF c.hit THEN c.frame ELSE [columns |-> file.columns, rows |-> file.rows]

\* a cache that hands out its own frame, and a script that skips df.copy():
\* with no filter applied df_filtered is the cached frame itself
CacheAfterAliased(d, f, items) == IF items = <<>> THEN Cached(f) ELSE Cached(d)

\* What the cache holds after a pass that loaded d and ended with
\* df_filtered = f.  st.cache_data returns a copy of its entry and the script
\* works on df.copy(), so nothing the pass does to f reaches the entry.
CacheAfter(d, f, items) == Cached(d)

----------------------------------------------------------------------------
(* SIDEBAR: the column classification loop                                 *)

date_cols(preview_df) ==
    LET Test(c) == is_datetime64_any_dtype(Col(preview_df, c))
    IN  SelectSeq(preview_df.columns, Test)

numeric_cols(preview_df) ==
    LET Test(c) == /\ ~is_datetime64_any_dtype(Col(preview_df, c))
                   /\ is_numeric_dtype(Col(preview_df, c))
    IN  SelectSeq(preview_df.columns, Test)

categorical_cols(preview_df) ==
    LET Test(c) == /\ ~is_datetime64_any_dtype(Col(preview_df, c))
                   /\ ~is_numeric_dtype(Col(preview_df, c))
                   /\ nunique(Col(preview_df, c)) < nunique_limit
    IN  SelectSeq(preview_df.columns, Test)

\* a slice one column too long
filtered_categorical_six(preview_df) ==
    SubSeq(categorical_cols(preview_df), 1,
           Min(max_categorical + 1, Len(categorical_cols(preview_df))))

\* categorical_cols[:5]
filtered_categorical(preview_df) ==
    LET cats == categorical_cols(preview_df)
    IN  SubSeq(cats, 1, Min(max_categorical, Len(cats)))

(* Widgets.  Streamlit keeps a widget's value between passes as long as    *)
(* the widget is built with the same label, options and default; a widget  *)
(* built differently starts from its default again.                        *)

NoSession == [multiselect |-> <<>>, date_input |-> <<>>]

HasMultiselect(sess, col) ==
    \E i \in 1..Len(sess.multiselect) : sess.multiselect[i].col = col

MultiselectOf(sess, col) ==
    sess.multiselect[CHOOSE i \in 1..Len(sess.multiselect) :
                        sess.multiselect[i].col = col]

\* st.multiselect(f"{col} Filter", options=vals, default=list(vals))
multiselect(sess, col, vals) ==
    IF HasMultiselect(sess, col) /\ MultiselectOf(sess, col).options = vals
    THEN MultiselectOf(sess, col).value
    ELSE vals

\* st.date_input("Date Range", (min_d, max_d)): a tuple of one or two dates
date_input(sess, default) ==
    IF sess.date_input # <<>> /\ sess.date_input[1].default = default
    THEN sess.date_input[1].value
    ELSE default

\* datetime -> date, as st.date_input does with the default it is given
to_date(t) == t \div 2

\* (min_d, max_d) of a date column of the preview, as dates
MinMax(ts) ==
    <<to_date(CHOOSE x \in ts : \A y \in ts : x <= y),
      to_date(CHOOSE x \in ts : \A y \in ts : x >= y)>>
date_default(preview_df, date_col) ==
    MinMax({v[2] : v \in unique(Col(preview_df, date_col))})

\* the multiselect of one categorical column
MultiselectWidget(sess, col, vals) ==
    [col |-> col, options |-> vals, value |-> multiselect(sess, col, vals)]

\* the date range widget of the first date column
DateWidget(sess, date_col, default) ==
    [col |-> date_col, default |-> default, value |-> date_input(sess, default)]

\* The widgets the sidebar builds from the preview, with their values.
WidgetsOf(preview_df, cats, dates, sess) ==
    [multiselect |->
        [i \in 1..Len(cats) |->
            MultiselectWidget(sess, cats[i], unique(Col(preview_df, cats[i])))],
     date_input |->
        IF dates = <<>> THEN <<>>
        ELSE <<DateWidget(sess, dates[1], date_default(preview_df, dates[1]))>>]

Preview(preview_df, sess) ==
    WidgetsOf(preview_df, filtered_categorical(preview_df),
              date_cols(preview_df), sess)

\* The widgets of a pass: none when there is no workbook or pd.read_excel
\* raises inside the try block
Widgets(file, sess) ==
    IF ~file.present \/ read_excel_raises(file) THEN NoSession
    ELSE Preview(read_excel(file, nrows), sess)

\* One item of filter_options.  isinstance(val, list) is islist: a
\* multiselect returns a list, st.date_input a tuple.
ListItem(col, selected) ==
    [col |-> col, islist |-> TRUE, list |-> selected, range |-> <<>>]
RangeItem(col, date_range) ==
    [col |-> col, islist |-> FALSE, list |-> {}, range |-> date_range]

\* filter_options as the sidebar leaves it, given the widgets of the pass
Sidebar(w) ==
    [i \in 1..Len(w.multiselect) |->
        ListItem(w.multiselect[i].col, w.multiselect[i].value)]
    \o (IF w.date_input # <<>> /\ Len(w.date_input[1].value) = 2
        THEN <<RangeItem(w.date_input[1].col, w.date_input[1].value)>>
        ELSE <<>>)

\* The except branch: st.error(...) is shown
SidebarError(file) == file.present /\ read_excel_raises(file)

----------------------------------------------------------------------------
(* MAIN CONTENT: APPLY FILTERS                                             *)

\* pd.to_datetime of a cell and of a date
to_datetime(v) == v[2]
date_to_datetime(d) == 2 * d

\* df_filtered[col].isin(val), row by row
isin(v, val) == v \in val

\* a range that leaves its end out
in_range_exclusive(v, val) ==
    /\ ~isnull(v)
    /\ to_datetime(v) >= date_to_datetime(val[1])
    /\ to_datetime(v) < date_to_datetime(val[2])

\* (to_datetime(x) >= to_datetime(val[0])) & (to_datetime(x) <= to_datetime(val[1]))
in_range(v, val) ==
    /\ ~isnull(v)
    /\ to_datetime(v) >= date_to_datetime(val[1])
    /\ to_datetime(v) <= date_to_datetime(val[2])

\* a mask that is one row out of step: row r is kept when row r - 1 passes
MaskShifted(t, item, i) ==
    LET Test(row) == IF item.islist THEN isin(row[i], item.list)
                     ELSE in_range(row[i], item.range)
        kept == {r \in 2..Len(t.rows) : Test(t.rows[r - 1])}
        Keep(r) == r \in kept
    IN  [t EXCEPT !.rows =
            [k \in 1..Cardinality(kept) |->
                t.rows[SelectSeq([r \in 1..Len(t.rows) |-> r], Keep)[k]]]]

\* the boolean mask of one item, applied to column i
Mask(t, item, i) ==
    LET Test(row) == IF item.islist THEN isin(row[i], item.list)
                     ELSE in_range(row[i], item.range)
    IN  [t EXCEPT !.rows = SelectSeq(t.rows, Test)]

\* one iteration of the loop
FilterStep(t, item) == Mask(t, item, ColIdx(t, item.col))

\* for col, val in filter_options.items(): ...
RECURSIVE ApplyFilters(_, _)
ApplyFilters(t, items) ==
    IF items = <<>> THEN t
    ELSE ApplyFilters(FilterStep(t, Head(items)), Tail(items))

----------------------------------------------------------------------------
(* MAIN CONTENT: the role lists                                            *)

\* every column name a workbook of the model uses
Names ==
    {"Date", "Total", "Quantity", "Product line", "Payment", "City", "Rating",
     "Month", "Branch", "Gender", "Member", "Store", "Shift", "Region", "Zone",
     "Clerk", "Shipped"}

\* the names each comprehension's condition accepts
SalesNames == {c \in Names : Matches("sales", c) \/ Matches("total", c)}
QtyNames == {c \in Names : Matches("qty", c) \/ Matches("quantity", c)}
CityNames == {c \in Names : Matches("city", c)}
RatingNames == {c \in Names : Matches("rating", c)}
CategoryNames == {c \in Names : Matches("product", c) \/ Matches("category", c)}
PaymentNames == {c \in Names : Matches("payment", c)}
DateNames == {c \in Names : Matches("date", c)}

\* [c for c in df.columns if c is one of `names`]
ColumnsIn(t, names) ==
    LET Test(c) == c \in names
    IN  SelectSeq(t.columns, Test)

sales_cols(t) == ColumnsIn(t, SalesNames)
qty_cols(t) == ColumnsIn(t, QtyNames)
city_cols(t) == ColumnsIn(t, CityNames)
rating_cols(t) == ColumnsIn(t, RatingNames)
category_cols(t) == ColumnsIn(t, CategoryNames)
payment_cols(t) == ColumnsIn(t, PaymentNames)
\* [c for c in df.columns if "date" in c.lower()]
date_named_cols(t) == ColumnsIn(t, DateNames)

----------------------------------------------------------------------------
(* MAIN CONTENT: the aggregations                                          *)

\* Series.sum(): nulls are skipped, the sum of nothing is 0
RECURSIVE SumOver(_, _, _)
SumOver(series, lo, hi) ==
    IF lo > hi THEN 0
    ELSE IF lo = hi THEN (IF isnull(series[lo]) THEN 0 ELSE series[lo][2])
    ELSE SumOver(series, lo, (lo + hi) \div 2)
         + SumOver(series, (lo + hi) \div 2 + 1, hi)
sum(series) == SumOver(series, 1, Len(series))

\* Series.count(): the non-null cells
count(series) == Cardinality({i \in 1..Len(series) : ~isnull(series[i])})

\* the values of column v in the rows whose column i is k
GroupValues(t, i, v, k) ==
    LET Test(row) == row[i] = k
    IN  ColAt([t EXCEPT !.rows = SelectSeq(t.rows, Test)], v)

SumOfGroup(series, k) == <<k, sum(series)>>
MeanOfGroup(series, k) == <<k, sum(series), count(series)>>

\* the keys in the order of their first rows (groupby(sort=False))
RECURSIVE FirstSeen(_, _)
FirstSeen(series, n) ==
    IF n = 0 THEN <<>>
    ELSE LET before == FirstSeen(series, n - 1)
         IN  IF isnull(series[n]) \/ series[n] \in Range(before) THEN before
             ELSE Append(before, series[n])
GroupKeysFirstSeen(t, key) == FirstSeen(Col(t, key), Len(t.rows))

\* the groups of a groupby: its keys in ascending order, null keys dropped
GroupKeys(t, key) == Sorted(unique(Col(t, key)))

GroupSums(t, i, v, keys) ==
    [g \in 1..Len(keys) |-> SumOfGroup(GroupValues(t, i, v, keys[g]), keys[g])]
GroupMeans(t, i, v, keys) ==
    [g \in 1..Len(keys) |-> MeanOfGroup(GroupValues(t, i, v, keys[g]), keys[g])]

\* t.groupby(key)[val].sum(): one entry <<k, sum>> for each group
groupby_sum(t, key, val) ==
    GroupSums(t, ColIdx(t, key), ColIdx(t, val), GroupKeys(t, key))

\* t.groupby(key)[val].mean(): <<k, sum, count>> stands for sum / count
groupby_mean(t, key, val) ==
    GroupMeans(t, ColIdx(t, key), ColIdx(t, val), GroupKeys(t, key))

RemoveAt(s, i) == SubSeq(s, 1, i - 1) \o SubSeq(s, i + 1, Len(s))

\* The first n entries of the series in descending order of value; among
\* equal values the one that comes first in the series goes first
\* (ties = "first") or last (ties = "last").
RECURSIVE Descending(_, _, _)
Descending(series, n, ties) ==
    IF n = 0 \/ series = <<>> THEN <<>>
    ELSE LET top == {i \in 1..Len(series) :
                        \A j \in 1..Len(series) : series[j][2] <= series[i][2]}
             best == IF ties = "first"
                     THEN CHOOSE i \in top : \A j \in top : i <= j
                     ELSE CHOOSE i \in top : \A j \in top : i >= j
         IN  <<series[best]>> \o Descending(RemoveAt(series, best), n - 1, ties)

\* Series.nlargest(n), keep="first".  With more than n entries pandas picks
\* the n largest with a stable sort: among equal values the one that comes
\* first in the series.  With n or fewer entries it returns
\* sort_values(ascending=False).head(n), whose default sort is not stable:
\* the order among equal values is the build's, and `ties` is that choice.
nlargest(series, n, ties) ==
    IF n >= Len(series) THEN Descending(series, n, ties)
    ELSE Descending(series, n, "first")

\* nlargest raises TypeError on a series of dtype object; a boolean mask
\* keeps the dtypes of df
nlargest_raises(t, val) == dtype(Col(t, val)) = "object"

\* Series.value_counts(): <<value, count>> for each non-null value
value_counts(series) ==
    {<<v, Cardinality({i \in 1..Len(series) : series[i] = v})>> : v \in unique(series)}

\* pd.to_datetime(x).dt.to_period("M"), cell by cell
DaysPerMonth == 2
to_period(v) == IF isnull(v) THEN Null ELSE <<"period", to_datetime(v) \div (2 * DaysPerMonth)>>

\* Period -> str
astype_str(v) == <<"str", v[2]>>

\* df_filtered["Month"] = ...: a column named Month is overwritten where it
\* stands, otherwise the column is appended
SetMonth(t, d, m) ==
    [t EXCEPT !.rows =
        [r \in 1..Len(t.rows) |-> [t.rows[r] EXCEPT ![m] = to_period(t.rows[r][d])]]]
AppendMonth(t, d) ==
    [columns |-> Append(t.columns, "Month"),
     rows |-> [r \in 1..Len(t.rows) |-> Append(t.rows[r], to_period(t.rows[r][d]))]]
AssignMonth(t, date_col) ==
    IF HasCol(t, "Month")
    THEN SetMonth(t, ColIdx(t, date_col), ColIdx(t, "Month"))
    ELSE AppendMonth(t, ColIdx(t, date_col))

\* the condition of CHART 1
HasMonthly(t) == sales_cols(t) # <<>> /\ date_named_cols(t) # <<>>

\* monthly: groupby("Month")[sales].sum().reset_index(), Month as str
monthly(t_month, sales) ==
    LET g == groupby_sum(t_month, "Month", sales)
    IN  [i \in 1..Len(g) |-> <<astype_str(g[i][1]), g[i][2]>>]

\* df_filtered.to_csv(index=False): the header line, then one line per row;
\* a null cell is written as the empty string
CsvCell(v) == IF isnull(v) THEN <<"text", "", 0>> ELSE <<"text", v[1], v[2]>>
to_csv(t) ==
    [header |-> t.columns,
     lines |-> [r \in 1..Len(t.rows) |->
                    [c \in 1..Len(t.rows[r]) |-> CsvCell(t.rows[r][c])]]]

NoCsv == [header |-> <<>>, lines |-> <<>>]

\* px.line(), px.bar(), px.pie() with no data
EmptyFig == [empty |-> TRUE, data |-> <<>>]
EmptyPie == [empty |-> TRUE, data |-> {}]
Fig(d) == [empty |-> FALSE, data |-> d]

----------------------------------------------------------------------------
(* One pass of the script                                                  *)

\* The stages of the main content, in script order
Stages == <<"load", "filter", "kpi1", "kpi2", "fig1", "fig2", "fig3",
            "fig4", "fig5", "table">>

StageIdx(s) == CHOOSE i \in 1..Len(Stages) : Stages[i] = s

\* groupby(...).mean() on a column of dtype object (a sheet with no rows):
\* whether it raises depends on the pandas release
mean_may_raise(t, val) == dtype(Col(t, val)) = "object"

\* Whether stage s raises on frame d (a readable workbook's)
StageRaises(d, s, lib) ==
    CASE s = "fig2" -> /\ category_cols(d) # <<>> /\ qty_cols(d) # <<>>
                       /\ nlargest_raises(d, qty_cols(d)[1])
      [] s = "fig3" -> /\ category_cols(d) # <<>> /\ sales_cols(d) # <<>>
                       /\ nlargest_raises(d, sales_cols(d)[1])
      [] s = "fig5" -> /\ city_cols(d) # <<>> /\ rating_cols(d) # <<>>
                       /\ mean_may_raise(d, rating_cols(d)[1])
                       /\ lib.mean_raises
      [] OTHER -> FALSE

\* The first stage that raises, or Len(Stages) + 1
FirstRaise(d, lib) ==
    LET bad == {i \in 1..Len(Stages) : StageRaises(d, Stages[i], lib)}
    IN  IF bad = {} THEN Len(Stages) + 1
        ELSE CHOOSE i \in bad : \A j \in bad : i <= j

\* the stages before `stop`
StagesBefore(stop) == {Stages[i] : i \in 1..(stop - 1)}

\* What a pass leaves when the main content does not get past load_data:
\* no workbook (the else branch), or a workbook pd.read_excel raises on.
NothingRendered(file, exc) ==
    [exception |-> exc, cache |-> NoCache, rendered |-> {},
     df |-> NoTable, df_filtered |-> NoTable, total_sales |-> 0,
     total_qty |-> 0, fig1 |-> EmptyFig, fig2 |-> EmptyFig, fig3 |-> EmptyFig,
     fig4 |-> EmptyPie, fig5 |-> EmptyFig, table |-> NoTable, csv |-> NoCsv]

\* The main content from the KPIs on: d is df, f0 is df_filtered after the
\* filter loop, f1 is df_filtered after CHART 1, and stop is the first stage
\* that raises.
Render(d, items, f0, f1, stop, ties) ==
    LET Ran(s) == StageIdx(s) < stop
    IN  [exception |-> IF stop > Len(Stages) THEN "none"
                       ELSE IF Stages[stop] = "fig5" THEN "mean" ELSE "nlargest",
         cache |-> CacheAfter(d, f1, items),
         rendered |-> StagesBefore(stop),
         df |-> d,
         df_filtered |-> f0,
         total_sales |-> IF sales_cols(d) # <<>>
                         THEN sum(Col(f0, sales_cols(d)[1])) ELSE 0,
         total_qty |-> IF qty_cols(d) # <<>>
                       THEN sum(Col(f0, qty_cols(d)[1])) ELSE 0,
         fig1 |-> IF HasMonthly(d)
                  THEN Fig(monthly(f1, sales_cols(d)[1])) ELSE EmptyFig,
         fig2 |-> IF Ran("fig2") /\ category_cols(d) # <<>> /\ qty_cols(d) # <<>>
                  THEN Fig(nlargest(groupby_sum(f1, category_cols(d)[1],
                                                qty_cols(d)[1]), nlargest_n, ties))
                  ELSE EmptyFig,
         fig3 |-> IF Ran("fig3") /\ category_cols(d) # <<>> /\ sales_cols(d) # <<>>
                  THEN Fig(nlargest(groupby_sum(f1, category_cols(d)[1],
                                                sales_cols(d)[1]), nlargest_n, ties))
                  ELSE EmptyFig,
         fig4 |-> IF Ran("fig4") /\ payment_cols(d) # <<>>
                  THEN Fig(value_counts(Col(f1, payment_cols(d)[1])))
                  ELSE EmptyPie,
         fig5 |-> IF Ran("fig5") /\ city_cols(d) # <<>> /\ rating_cols(d) # <<>>
                  THEN Fig(groupby_mean(f1, city_cols(d)[1], rating_cols(d)[1]))
                  ELSE EmptyFig,
         table |-> IF Ran("table") THEN f1 ELSE NoTable,
         csv |-> IF Ran("table") THEN to_csv(f1) ELSE NoCsv]

\* CHART 1's assignment to df_filtered
Chart1(d, items, f0, stop, ties) ==
    Render(d, items, f0,
           IF HasMonthly(d) THEN AssignMonth(f0, date_named_cols(d)[1]) ELSE f0,
           stop, ties)

\* df = load_data(uploaded_file); df_filtered = df.copy(); the filter loop
Loaded(d, items, lib) ==
    Chart1(d, items, ApplyFilters(d, items), FirstRaise(d, lib), lib.ties)

\* a load_data that swallows the read error and goes on with an empty frame
MainContentSwallows(file, items, c, lib) ==
    IF ~file.present THEN NothingRendered(file, "none")
    ELSE IF read_excel_raises(file) THEN Loaded(NoTable, items, lib)
    ELSE Loaded(load_data(file, c), items, lib)

\* if uploaded_file: ... else: "Upload data to start analysis"
MainContent(file, items, c, lib) ==
    IF ~file.present THEN NothingRendered(file, "none")
    ELSE IF read_excel_raises(file) THEN NothingRendered(file, "read_excel")
    ELSE Loaded(load_data(file, c), items, lib)

Pass(file, sess, lib) ==
    \E w \in {Widgets(file, sess)} :
    \E r \in {MainContent(file, Sidebar(w), cache, lib)} :
        /\ uploaded_file' = file
        /\ session' = w
        /\ filter_options' = Sidebar(w)
        /\ error' = SidebarError(file)
        /\ exception' = r.exception
        /\ cache' = r.cache
        /\ rendered' = r.rendered
        /\ df' = r.df
        /\ df_filtered' = r.df_filtered
        /\ total_sales' = r.total_sales
        /\ total_qty' = r.total_qty
        /\ fig1' = r.fig1
        /\ fig2' = r.fig2
        /\ fig3' = r.fig3
        /\ fig4' = r.fig4
        /\ fig5' = r.fig5
        /\ table' = r.table
        /\ csv' = r.csv

----------------------------------------------------------------------------
(* The workbooks a user uploads.  Within one column the non-null cells are *)
(* of one kind, and a column holds what its name says (numbers under       *)
(* Total, Quantity and Rating, dates under Date).                          *)

Workbook(columns, rows) ==
    [present |-> TRUE, readable |-> TRUE, columns |-> columns, rows |-> rows]

\* an upload pandas cannot parse
Unreadable == [present |-> TRUE, readable |-> FALSE, columns |-> <<>>, rows |-> <<>>]

SeqsUpTo(R, n) == UNION {[1..k -> R] : k \in 0..n}

Repeat(row, n) == [i \in 1..n |-> row]

\* Bounds
MaxHead == 2
MaxDay == 2
MaxDeselected == 1
WideCols == 6
MaxCats == 11

(* Workbooks for the filters: City, Date, Total.  Short sheets of up to    *)
(* MaxHead rows, and long sheets whose 100th or 101st row is the last.     *)
FilterColumns == <<"City", "Date", "Total">>
FilterRows ==
    { <<Str(1), Ts(2), Num(1)>>,    \* day 1, 00:00
      <<Str(2), Ts(5), Num(2)>>,    \* day 2, 12:00
      <<Null,   Ts(4), Num(3)>>,    \* no city
      <<Str(1), Null,  Num(4)>>,    \* no date
      <<Str(3), Ts(3), Num(5)>> }   \* day 1, 12:00
ShortSheets == {Workbook(FilterColumns, h) : h \in SeqsUpTo(FilterRows, MaxHead)}
LongSheets ==
    {Workbook(FilterColumns,
              h \o Repeat(<<Str(1), Ts(2), Num(1)>>, n - Len(h)) \o t) :
        h \in {<<>>, << <<Str(2), Ts(5), Num(2)>> >>, << <<Null, Ts(4), Num(3)>> >>},
        n \in {nrows - 1, nrows},
        t \in SeqsUpTo(FilterRows, 1)}
FilterFiles == ShortSheets \cup LongSheets \cup {Unreadable}

(* Workbooks for the classification: WideCols columns, each categorical    *)
(* or a date column, and sheets where one column is numeric, or has 19 or  *)
(* 20 distinct values.                                                     *)
WideNames == <<"Branch", "Gender", "Member", "Store", "Shift", "Region",
               "Zone", "Clerk", "Shipped">>
WideCell(kind, r) ==
    CASE kind = "cat" -> Str(1)
      [] kind = "date" -> Ts(2 * (1 + (r % 2)))
      [] kind = "num" -> Num(r)
      [] kind = "many" -> Str(r)
      [] kind = "edge" -> Str(IF r = nunique_limit THEN 1 ELSE r)
WideSheet(kinds, n) ==
    Workbook(SubSeq(WideNames, 1, WideCols),
             [r \in 1..n |-> [c \in 1..WideCols |-> WideCell(kinds[c], r)]])
WideFiles ==
    {WideSheet(k, 2) : k \in [1..WideCols -> {"cat", "date"}]}
    \cup {WideSheet([c \in 1..WideCols |-> IF c = p THEN k ELSE "cat"], nunique_limit) :
            p \in 1..WideCols, k \in {"num", "many"}}
    \cup {WideSheet([c \in 1..WideCols |-> IF c = 1 THEN "edge" ELSE "num"], nunique_limit)}
    \cup {Unreadable}

(* Workbooks for the aggregations: every subset of the seven concept       *)
(* columns, with three rows or with the header only; and product sheets    *)
(* with up to MaxCats products.                                            *)
ConceptColumns == <<"Date", "Product line", "Quantity", "Total", "Payment",
                    "City", "Rating">>
ConceptRows ==
    << <<Ts(2), Str(2), Num(3), Num(10), Str(1), Str(1), Num(4)>>,
       <<Ts(3), Str(1), Num(1), Num(20), Str(1), Str(2), Num(5)>>,
       <<Ts(5), Str(2), Num(2), Num(5),  Str(1), Str(1), Null>> >>
Project(row, keep) ==
    LET idx == SelectSeq([i \in 1..Len(row) |-> i], LAMBDA i : i \in keep)
    IN  [j \in 1..Len(idx) |-> row[idx[j]]]
ConceptFiles ==
    {Workbook(Project(ConceptColumns, keep),
              [r \in 1..n |-> Project(ConceptRows[r], keep)]) :
        keep \in SUBSET (1..Len(ConceptColumns)), n \in {0, Len(ConceptRows)}}

\* Products k, k-1, ..., 1 in that order, one row each, then a second row
\* for product 2; the products in `heavy` sell 2, the others 1.
ProductSheet(k, heavy) ==
    Workbook(<<"Product line", "Quantity", "Total">>,
             [r \in 1..k |->
                <<Str(k + 1 - r),
                  Num(IF (k + 1 - r) \in heavy THEN 2 ELSE 1),
                  Num(IF (k + 1 - r) \in heavy THEN 1 ELSE 3)>>]
             \o << <<Str(2), Num(1), Num(1)>> >>)
ProductFiles ==
    {ProductSheet(k, heavy) : k \in {nlargest_n - 1, MaxCats},
                              heavy \in {{}, {MaxCats}, {1, nlargest_n}}}
AggFiles == ConceptFiles \cup ProductFiles \cup {Unreadable}

----------------------------------------------------------------------------
(* The user's interactions, each followed by one pass                      *)

\* What the library may do where its behaviour is the build's: whether
\* mean() raises on a column of dtype object, and the order sort_values
\* leaves equal values in (two orders stand for all of them).
DefaultLib == [mean_raises |-> FALSE, ties |-> "first"]
LibOutcomes(file) ==
    IF ~file.present \/ read_excel_raises(file) THEN {DefaultLib}
    ELSE [mean_raises :
            IF /\ city_cols(file) # <<>> /\ rating_cols(file) # <<>>
               /\ mean_may_raise(file, rating_cols(file)[1])
            THEN BOOLEAN ELSE {FALSE},
          ties :
            IF category_cols(file) # <<>> THEN {"first", "last"} ELSE {"first"}]

\* the values st.date_input can return: one date while the user is picking
\* a range, or a range
Days == 1..MaxDay
DateInputs == {<<a>> : a \in Days} \cup {<<a, b>> : a \in Days, b \in Days}

Init ==
    /\ uploaded_file = NoFile
    /\ session = NoSession
    /\ filter_options = <<>>
    /\ error = FALSE
    /\ exception = "none"
    /\ cache = NoCache
    /\ rendered = {}
    /\ df = NoTable
    /\ df_filtered = NoTable
    /\ total_sales = 0
    /\ total_qty = 0
    /\ fig1 = EmptyFig
    /\ fig2 = EmptyFig
    /\ fig3 = EmptyFig
    /\ fig4 = EmptyPie
    /\ fig5 = EmptyFig
    /\ table = NoTable
    /\ csv = NoCsv

\* the user picks a workbook in st.file_uploader
UploadFile(file) ==
    /\ ~uploaded_file.present
    /\ \E lib \in LibOutcomes(file) : Pass(file, NoSession, lib)

\* the user removes the workbook
RemoveFile ==
    /\ uploaded_file.present
    /\ Pass(NoFile, session, DefaultLib)

\* the subsets of S with at most k members
RECURSIVE SubsetsUpTo(_, _)
SubsetsUpTo(S, k) ==
    IF k = 0 THEN {{}}
    ELSE LET smaller == SubsetsUpTo(S, k - 1)
         IN  smaller \cup {D \cup {x} : D \in smaller, x \in S}

\* the selections the model lets the user make: nothing selected, or all
\* options but at most MaxDeselected of them
Selections(options) ==
    {{}} \cup {options \ D : D \in SubsetsUpTo(options, MaxDeselected)}

\* the user changes the selection of the i-th multiselect
ChangeMultiselect(i, selected) ==
    /\ i \in 1..Len(session.multiselect)
    /\ selected \subseteq session.multiselect[i].options
    /\ selected # session.multiselect[i].value
    /\ \E lib \in LibOutcomes(uploaded_file) :
          Pass(uploaded_file,
               [session EXCEPT !.multiselect[i].value = selected], lib)

\* the user picks a date in the date range widget
ChangeDateInput(value) ==
    /\ session.date_input # <<>>
    /\ value # session.date_input[1].value
    /\ Len(value) = 2 => value[1] <= value[2]
    /\ \E lib \in LibOutcomes(uploaded_file) :
          Pass(uploaded_file,
               [session EXCEPT !.date_input[1].value = value], lib)

\* any other interaction: the script runs again on the same widget state
Rerun ==
    \E lib \in LibOutcomes(uploaded_file) :
        Pass(uploaded_file, session, lib)

Interact ==
    \/ RemoveFile
    \/ \E i \in 1..Len(session.multiselect) :
          \E selected \in Selections(session.multiselect[i].options) :
              ChangeMultiselect(i, selected)
    \/ \E value \in DateInputs : ChangeDateInput(value)
    \/ Rerun

Next == (\E file \in FilterFiles : UploadFile(file)) \/ Interact
Spec == Init /\ [][Next]_vars

NextSchema == (\E file \in WideFiles : UploadFile(file)) \/ Interact
SpecSchema == Init /\ [][NextSchema]_vars

NextAgg == (\E file \in AggFiles : UploadFile(file)) \/ Interact
SpecAgg == Init /\ [][NextAgg]_vars

----------------------------------------------------------------------------
(* Properties of the filters (checked under Spec)                          *)

\* the predicate of one item of filter_options, on a row of df
SatisfiesItem(row, item) ==
    LET v == row[ColIdx(df, item.col)]
    IN  IF item.islist THEN v \in item.list
        ELSE /\ v[1] = "date"
             /\ 2 * item.range[1] <= v[2]
             /\ v[2] <= 2 * item.range[2]

SatisfiesAll(row) ==
    \A k \in 1..Len(filter_options) : SatisfiesItem(row, filter_options[k])

\* C1: the filtered view has the columns of df; each of its rows is a row
\* of df that satisfies every item of filter_options (the value is one of
\* the selected ones; start <= value <= end); and every row of df that
\* satisfies them all is in it, in df's order, nothing added or dropped.
C1_FilterSoundAndComplete ==
    "filter" \in rendered =>
        /\ df_filtered.columns = df.columns
        /\ \A r \in 1..Len(df_filtered.rows) :
              /\ df_filtered.rows[r] \in Range(df.rows)
              /\ SatisfiesAll(df_filtered.rows[r])
        /\ \A r \in 1..Len(df.rows) :
              SatisfiesAll(df.rows[r]) => df.rows[r] \in Range(df_filtered.rows)
        /\ df_filtered.rows = SelectSeq(df.rows, SatisfiesAll)

\* a pass where a categorical and a date filter each drop a row the other
\* keeps, and some row passes both
C1_Witness ==
    /\ "filter" \in rendered
    /\ Len(filter_options) = 2
    /\ df_filtered.rows # <<>>
    /\ \E r \in 1..Len(df.rows) :
          /\ ~SatisfiesItem(df.rows[r], filter_options[1])
          /\ SatisfiesItem(df.rows[r], filter_options[2])
    /\ \E r \in 1..Len(df.rows) :
          /\ SatisfiesItem(df.rows[r], filter_options[1])
          /\ ~SatisfiesItem(df.rows[r], filter_options[2])

\* C2: when the read error is shown no Dataset is produced and no stage of
\* the dashboard runs in the pass.
C2_ErrorBlocksDashboard ==
    error =>
        /\ rendered = {}
        /\ df = NoTable
        /\ ~cache.hit
        /\ filter_options = <<>>
        /\ table = NoTable
        /\ csv = NoCsv

\* an unreadable workbook was uploaded: the error is shown, and load_data
\* raised in the main content
C2_Witness == error /\ uploaded_file.present /\ exception = "read_excel"

\* C4 (as claimed): the table shown and the CSV offered are the filtered
\* view, with the columns of the Dataset and the rows that pass the filters;
\* the KPIs and charts leave the filtered view as it was.
C4_ExportIsFilteredView ==
    "table" \in rendered =>
        /\ table.columns = df.columns
        /\ table = df_filtered
        /\ csv = to_csv(df_filtered)

\* C6: applying the filter loop to the filtered view again, with the same
\* filter_options, gives the same rows in the same order.
C6_FilterIdempotent ==
    "filter" \in rendered =>
        ApplyFilters(df_filtered, filter_options) = df_filtered

\* a pass whose filters dropped some rows and kept some
C6_Witness ==
    /\ "filter" \in rendered
    /\ filter_options # <<>>
    /\ df_filtered.rows # <<>>
    /\ Len(df_filtered.rows) < Len(df.rows)

\* C7: after any sequence of passes on a workbook, df is the workbook's
\* content (never changed in place, nor is the cached frame), and the
\* filtered view, the KPIs, the charts, the table and the CSV are what a
\* first pass on the workbook gives for the filter_options of this pass.
C7_DatasetReadOnly ==
    "load" \in rendered =>
        /\ df = [columns |-> uploaded_file.columns, rows |-> uploaded_file.rows]
        /\ cache = Cached(df)
        /\ \E lib \in LibOutcomes(uploaded_file) :
             \E r \in {MainContent(uploaded_file, filter_options, NoCache, lib)} :
                /\ df_filtered = r.df_filtered
                /\ total_sales = r.total_sales /\ total_qty = r.total_qty
                /\ fig1 = r.fig1 /\ fig2 = r.fig2 /\ fig3 = r.fig3
                /\ fig4 = r.fig4 /\ fig5 = r.fig5
                /\ table = r.table /\ csv = r.csv

\* a pass after the user changed the date range so that no filter is left,
\* in which CHART 1 assigned the Month column
C7_Witness ==
    /\ "table" \in rendered
    /\ filter_options = <<>>
    /\ session.date_input # <<>>
    /\ Len(session.date_input[1].value) = 1
    /\ HasCol(table, "Month")
    /\ df.rows # <<>>

\* C8 (as claimed): with a sample of zero rows no column is classified, no
\* column gets a filter, and the pass does not crash.
C8_EmptySampleUnclassified ==
    (uploaded_file.present /\ uploaded_file.readable /\ uploaded_file.rows = <<>>) =>
        /\ session.multiselect = <<>>
        /\ session.date_input = <<>>
        /\ filter_options = <<>>
        /\ exception = "none"

\* the non-null values of column c in the first 100 rows of df
SampleValues(c) ==
    {df.rows[j][ColIdx(df, c)] : j \in 1..Min(100, Len(df.rows))} \ {Null}

\* C9: the selected values of a categorical filter are among the non-null
\* values the column has in the first 100 rows, so every row of the filtered
\* view has, in each filtered categorical column, a non-null value that
\* occurs in the first 100 rows.
C9_OptionsFromSample ==
    "filter" \in rendered =>
        \A k \in 1..Len(filter_options) :
            filter_options[k].islist =>
                /\ filter_options[k].list \subseteq SampleValues(filter_options[k].col)
                /\ \A r \in 1..Len(df_filtered.rows) :
                      df_filtered.rows[r][ColIdx(df, filter_options[k].col)]
                          \in SampleValues(filter_options[k].col)

\* a sheet of more than 100 rows with a row after the 100th whose City is
\* not in the sample, and a row without City, under the default selection
C9_Witness ==
    /\ "filter" \in rendered
    /\ Len(df.rows) > 100
    /\ filter_options # <<>>
    /\ filter_options[1].islist
    /\ filter_options[1].list = SampleValues(filter_options[1].col)
    /\ df_filtered.rows # <<>>
    /\ \E r \in 101..Len(df.rows) :
          /\ ~isnull(df.rows[r][ColIdx(df, filter_options[1].col)])
          /\ df.rows[r][ColIdx(df, filter_options[1].col)]
                \notin SampleValues(filter_options[1].col)
    /\ \E r \in 1..100 : isnull(df.rows[r][ColIdx(df, filter_options[1].col)])

----------------------------------------------------------------------------
(* Properties of the classification (checked under SpecSchema)             *)

\* column c of the first 100 rows of df
SampleColumn(c) == ColAt([df EXCEPT !.rows = SubSeq(df.rows, 1, Min(100, Len(df.rows)))],
                         ColIdx(df, c))

IsDateColumn(c) == dtype(SampleColumn(c)) = "datetime64"
IsCategoricalColumn(c) ==
    /\ dtype(SampleColumn(c)) = "object"
    /\ Cardinality(Range(SampleColumn(c)) \ {Null}) < 20

\* the columns of the items of filter_options that are lists / ranges
ListKeys == LET Test(item) == item.islist
            IN  [k \in 1..Len(SelectSeq(filter_options, Test)) |->
                    SelectSeq(filter_options, Test)[k].col]
RangeKeys == LET Test(item) == ~item.islist
             IN  [k \in 1..Len(SelectSeq(filter_options, Test)) |->
                    SelectSeq(filter_options, Test)[k].col]

\* C10: filter_options has at most six keys: the first five columns, in
\* column order, that are classified categorical, and the first date-typed
\* column, which is there only when both ends of the range are picked.  No
\* other column is a key.
C10_AtMostSixKeys ==
    "load" \in rendered =>
        /\ Len(filter_options) <= 6
        /\ LET cats == SelectSeq(df.columns, IsCategoricalColumn)
           IN  ListKeys = SubSeq(cats, 1, Min(5, Len(cats)))
        /\ LET dates == SelectSeq(df.columns, IsDateColumn)
           IN  IF dates # <<>> /\ Len(session.date_input[1].value) = 2
               THEN RangeKeys = <<dates[1]>>
               ELSE RangeKeys = <<>>

\* a sheet with six categorical columns: the sixth has no filter
C10_Witness ==
    /\ "load" \in rendered
    /\ Len(SelectSeq(df.columns, IsCategoricalColumn)) > 5
    /\ Len(filter_options) = 5

----------------------------------------------------------------------------
(* Properties of the KPIs and charts (checked under SpecAgg)               *)

\* C3 (as claimed): on any readable workbook the pass raises no exception;
\* a KPI whose column is missing is 0, a chart that needs a missing concept
\* is the empty chart, and a KPI or chart whose concepts are all there is
\* computed from the filtered view.
C3_MissingConceptsDegrade ==
    (uploaded_file.present /\ uploaded_file.readable) =>
        /\ exception = "none"
        /\ IF sales_cols(df) = <<>> THEN total_sales = 0
           ELSE total_sales = sum(Col(df_filtered, sales_cols(df)[1]))
        /\ IF qty_cols(df) = <<>> THEN total_qty = 0
           ELSE total_qty = sum(Col(df_filtered, qty_cols(df)[1]))
        /\ fig1.empty <=> (sales_cols(df) = <<>> \/ date_named_cols(df) = <<>>)
        /\ fig2.empty <=> (category_cols(df) = <<>> \/ qty_cols(df) = <<>>)
        /\ fig3.empty <=> (category_cols(df) = <<>> \/ sales_cols(df) = <<>>)
        /\ fig4.empty <=> (payment_cols(df) = <<>>)
        /\ fig5.empty <=> (city_cols(df) = <<>> \/ rating_cols(df) = <<>>)

\* the non-null values of the primary category column in the filtered view
Categories ==
    {df_filtered.rows[r][ColIdx(df, category_cols(df)[1])] :
        r \in 1..Len(df_filtered.rows)} \ {Null}

\* the sum of column val over the rows of the filtered view in category c
CategorySum(c, val) ==
    LET InCategory(row) == row[ColIdx(df, category_cols(df)[1])] = c
    IN  sum(ColAt([df_filtered EXCEPT !.rows = SelectSeq(df_filtered.rows, InCategory)],
                  ColIdx(df, val)))

\* the first row of category c in the filtered view
FirstRow(c) ==
    CHOOSE r \in 1..Len(df_filtered.rows) :
        /\ df_filtered.rows[r][ColIdx(df, category_cols(df)[1])] = c
        /\ \A q \in 1..(r - 1) :
              df_filtered.rows[q][ColIdx(df, category_cols(df)[1])] # c

\* the categories left out of a top table
LeftOut(top) == Categories \ {top[i][1] : i \in 1..Len(top)}

\* a top table: min(k, 10) distinct categories, each with its sum, the
\* largest sums, in descending order
IsTopTable(top, val) ==
    /\ Len(top) = Min(Cardinality(Categories), 10)
    /\ \A i \in 1..Len(top) :
          /\ top[i][1] \in Categories
          /\ top[i][2] = CategorySum(top[i][1], val)
    /\ \A i, j \in 1..Len(top) :
          /\ i # j => top[i][1] # top[j][1]
          /\ i < j => top[i][2] >= top[j][2]
    /\ \A c \in LeftOut(top) : \A i \in 1..Len(top) : CategorySum(c, val) <= top[i][2]

\* equal sums, in the table and at the cut-off, ranked by Before
TiesRanked(top, val, Before(_, _)) ==
    /\ \A i, j \in 1..Len(top) :
          (i < j /\ top[i][2] = top[j][2]) => Before(top[i][1], top[j][1])
    /\ \A c \in LeftOut(top) : \A i \in 1..Len(top) :
          CategorySum(c, val) = top[i][2] => Before(top[i][1], c)

EarlierFirstRow(c1, c2) == FirstRow(c1) < FirstRow(c2)
SmallerKey(c1, c2) == c1[2] < c2[2]

ByQuantityShown == "fig2" \in rendered /\ ~fig2.empty
BySalesShown == "fig3" \in rendered /\ ~fig3.empty

\* C5 (as claimed): each top table has min(k, 10) rows of category and sum,
\* the largest sums in descending order, and among equal sums the category
\* whose first row is earlier in the filtered view is ranked first.
C5_TiesByFirstRow ==
    /\ ByQuantityShown =>
          /\ IsTopTable(fig2.data, qty_cols(df)[1])
          /\ TiesRanked(fig2.data, qty_cols(df)[1], EarlierFirstRow)
    /\ BySalesShown =>
          /\ IsTopTable(fig3.data, sales_cols(df)[1])
          /\ TiesRanked(fig3.data, sales_cols(df)[1], EarlierFirstRow)

\* C5 (amended): each top table has min(k, 10) rows, k the number of
\* distinct non-null categories, each a category with its sum, the largest
\* sums in descending order; with more than 10 categories equal sums, in the
\* table and at the cut-off, are ranked by ascending category (the order of
\* the groups), and with 10 or fewer their order is not fixed.
C5_TiesByCategory ==
    /\ ByQuantityShown =>
          /\ IsTopTable(fig2.data, qty_cols(df)[1])
          /\ Cardinality(Categories) > 10 =>
                TiesRanked(fig2.data, qty_cols(df)[1], SmallerKey)
    /\ BySalesShown =>
          /\ IsTopTable(fig3.data, sales_cols(df)[1])
          /\ Cardinality(Categories) > 10 =>
                TiesRanked(fig3.data, sales_cols(df)[1], SmallerKey)

\* eleven categories in the filtered view, with equal sums inside the
\* quantity table and at its cut-off
C5_Witness ==
    /\ ByQuantityShown
    /\ Cardinality(Categories) > 10
    /\ Len(fig2.data) = 10
    /\ fig2.data[9][2] = fig2.data[10][2]
    /\ \E c \in LeftOut(fig2.data) :
          CategorySum(c, qty_cols(df)[1]) = fig2.data[10][2]

====
